---- MODULE Spec2Model ----
(***************************************************************************)
(* Healthcare Database Request Assistant (Streamlit application).          *)
(*                                                                         *)
(* One step of the model is one execution of main() (src/main.py), the     *)
(* script Streamlit runs from top to bottom on every user interaction and  *)
(* on every st.rerun().  The state is what survives between executions:    *)
(* st.session_state, os.environ, the .env file and the files under faiss/, *)
(* plus `page`, the record of what the last execution did and displayed.   *)
(*                                                                         *)
(* Library contracts the source relies on (langchain_community FAISS):     *)
(*   save_local(folder_path, index_name="index") writes the two files      *)
(*     folder_path/index.faiss and then folder_path/index.pkl;             *)
(*   load_local(folder_path, embeddings, index_name="index") reads those   *)
(*     two files and raises when either is missing or unreadable.          *)
(***************************************************************************)
EXTENDS Integers, Sequences, FiniteSets, TLC

VARIABLES
    api_key_valid,  \* st.session_state.api_key_valid
    history,        \* st.session_state.history
    vectorstore,    \* st.session_state.vectorstore (NoIndex: key not in session_state)
    environ,        \* os.environ["GOOGLE_API_KEY"] ("" when unset)
    dotenv,         \* the .env key=value file
    files,          \* the files under faiss/
    dataDir,        \* what DATA_DIR holds
    rerun,          \* st.rerun() was called: the script is about to run again
    page            \* what the last execution of main() did and displayed

vars == <<api_key_valid, history, vectorstore, environ, dotenv, files, dataDir, rerun, page>>

----------------------------------------------------------------------------
(* Bounds and input sets *)

MaxHistory == 2

Keys == {"good", "bad"}
AcceptedKeys == {"good"}
\* Request texts, each named by the entity it mentions: "phone" is a column
\* of the schema in the prompt, "insurance" is not in the schema.
Requests == {"", "phone"}

\* The entities of the schema written in the prompt, and request texts that
\* mention an entity the prompt names as not in the schema.
Schema == {"phone"}
UnknownEntityRequests == {"insurance"}
Bool == {TRUE, FALSE}

\* Response texts of the generation backend, as sequences of tokens:
\* "AT" is the label "Action Type:", "ERR" is "ERROR:", "NL" a line break,
\* "SP" a blank, anything else a word.
Answers ==
    { <<"AT", "SP", "Update", "NL", "SQL">>,
      <<"ERR", "msg">>,
      <<"SQL">>,
      <<"AT", "SP", "Report">> }

----------------------------------------------------------------------------
(* src/utils/config.py: the paths *)

FAISS_INDEX_PATH == "faiss/healthcare_index"
PfxFaiss == "faiss/healthcare_index.faiss"        \* f"{FAISS_INDEX_PATH}.faiss"
PfxPkl == "faiss/healthcare_index.pkl"            \* f"{FAISS_INDEX_PATH}.pkl"
DirFaiss == "faiss/healthcare_index/index.faiss"  \* save_local / load_local
DirPkl == "faiss/healthcare_index/index.pkl"      \* save_local / load_local
Paths == {PfxFaiss, PfxPkl, DirFaiss, DirPkl}

Absent == "absent"
exists(fs, p) == fs[p] # Absent

\* An index: the documents in its docstore, the embedding configuration that
\* produced its vectors, and the one that embeds the queries.
NoIndex == [src |-> "none", vec |-> "none", qemb |-> "none"]
Index(src, vec, qemb) == [src |-> src, vec |-> vec, qemb |-> qemb]

----------------------------------------------------------------------------
(* src/utils/api_validator.py *)

\* ChatGoogleGenerativeAI(model=LLM_MODEL, api_key=k): raises on a key the
\* backend does not accept or when the backend cannot be reached.
LlmInit(k, net) == k \in AcceptedKeys /\ net

validate_api_key_noempty(api_key, net) ==
    IF LlmInit(api_key, net)
    THEN [is_valid |-> TRUE, msg |-> "None", inits |-> 1]
    ELSE [is_valid |-> FALSE, msg |-> "init failed", inits |-> 1]

validate_api_key(api_key, net) ==
    IF api_key = ""
    THEN [is_valid |-> FALSE, msg |-> "API key is empty", inits |-> 0]
    ELSE IF LlmInit(api_key, net)
         THEN [is_valid |-> TRUE, msg |-> "None", inits |-> 1]
         ELSE [is_valid |-> FALSE, msg |-> "init failed", inits |-> 1]

Validation(src, key, v) ==
    [src |-> src, key |-> key, is_valid |-> v.is_valid, msg |-> v.msg, inits |-> v.inits]

----------------------------------------------------------------------------
(* The .env file and python-dotenv *)

NoDotenv == [exists |-> FALSE, key |-> "", other |-> ""]

\* load_dotenv(): a key of the file is put in os.environ unless set already.
load_dotenv(env, file) ==
    IF env = "" /\ file.exists /\ file.key # "" THEN file.key ELSE env

----------------------------------------------------------------------------
(* src/components/api_key_form.py *)

NoForm == [submitted |-> FALSE, key |-> "", remember |-> FALSE]

render_api_key_form_leaky(form, env, file, net, writeOk) ==
    IF form.submitted /\ form.key # ""
    THEN LET v == validate_api_key(form.key, net)
         IN [provided |-> v.is_valid, environ |-> form.key, dotenv |-> file,
             validations |-> <<Validation("form", form.key, v)>>,
             msgs |-> IF v.is_valid THEN {} ELSE {"invalid_form_key"}]
    ELSE [provided |-> FALSE, environ |-> env, dotenv |-> file,
          validations |-> <<>>, msgs |-> {}]

\* The form that writes a new file over an existing .env file.
render_api_key_form_overwrite(form, env, file, net, writeOk) ==
    IF form.submitted /\ form.key # ""
    THEN LET v == validate_api_key(form.key, net)
         IN IF v.is_valid
            THEN [provided |-> TRUE,
                  environ |-> form.key,
                  dotenv |-> IF form.remember /\ writeOk
                             THEN [exists |-> TRUE, key |-> form.key, other |-> ""]
                             ELSE file,
                  validations |-> <<Validation("form", form.key, v)>>,
                  msgs |-> IF ~form.remember THEN {}
                           ELSE IF ~writeOk THEN {"dotenv_error"}
                           ELSE IF ~file.exists THEN {"dotenv_new"}
                           ELSE {"dotenv_updated"}]
            ELSE [provided |-> FALSE, environ |-> env, dotenv |-> file,
                  validations |-> <<Validation("form", form.key, v)>>,
                  msgs |-> {"invalid_form_key"}]
    ELSE [provided |-> FALSE, environ |-> env, dotenv |-> file,
          validations |-> <<>>, msgs |-> {}]

render_api_key_form(form, env, file, net, writeOk) ==
    IF form.submitted /\ form.key # ""
    THEN LET v == validate_api_key(form.key, net)
         IN IF v.is_valid
            THEN [provided |-> TRUE,
                  environ |-> form.key,
                  dotenv |-> IF form.remember /\ writeOk
                             THEN IF ~file.exists
                                  THEN [exists |-> TRUE, key |-> form.key, other |-> ""]
                                  ELSE [file EXCEPT !.key = form.key]
                             ELSE file,
                  validations |-> <<Validation("form", form.key, v)>>,
                  msgs |-> IF ~form.remember THEN {}
                           ELSE IF ~writeOk THEN {"dotenv_error"}
                           ELSE IF ~file.exists THEN {"dotenv_new"}
                           ELSE {"dotenv_updated"}]
            ELSE [provided |-> FALSE, environ |-> env, dotenv |-> file,
                  validations |-> <<Validation("form", form.key, v)>>,
                  msgs |-> {"invalid_form_key"}]
    ELSE [provided |-> FALSE, environ |-> env, dotenv |-> file,
          validations |-> <<>>, msgs |-> {}]

----------------------------------------------------------------------------
(* src/main.py, lines 45-81: the credential gate *)

\* The gate that trusts the environment's key without validating it.
CredentialGate_novalidate(valid, env0, file, form, netEnv, netForm, writeOk) ==
    LET env1 == load_dotenv(env0, file)
    IN IF env1 = "" /\ ~valid
       THEN LET f == render_api_key_form(form, env1, file, netForm, writeOk)
            IN [valid |-> f.provided, environ |-> f.environ, dotenv |-> f.dotenv,
                proceed |-> FALSE, rerun |-> f.provided,
                validations |-> f.validations, msgs |-> f.msgs]
       ELSE [valid |-> TRUE, environ |-> env1, dotenv |-> file,
             proceed |-> TRUE, rerun |-> FALSE,
             validations |-> <<>>, msgs |-> {}]

CredentialGate(valid, env0, file, form, netEnv, netForm, writeOk) ==
    LET env1 == load_dotenv(env0, file)                       \* line 52
        checkEnv == env1 # "" /\ ~valid                       \* line 58
        vEnv == validate_api_key(env1, netEnv)                \* line 59
        envBad == checkEnv /\ ~vEnv.is_valid                  \* line 60
        api_key == IF envBad THEN "" ELSE env1                \* line 63
        env2 == IF envBad THEN "" ELSE env1                   \* line 65
        valsEnv == IF checkEnv THEN <<Validation("env", env1, vEnv)>> ELSE <<>>
        msgsEnv == IF envBad THEN {"invalid_env_key"} ELSE {}
    IN IF api_key = "" /\ ~valid                              \* line 68
       THEN LET f == render_api_key_form(form, env2, file, netForm, writeOk)
            IN [valid |-> f.provided,                         \* line 74
                environ |-> f.environ, dotenv |-> f.dotenv,
                proceed |-> FALSE,                            \* line 78
                rerun |-> f.provided,                         \* line 75
                validations |-> valsEnv \o f.validations,
                msgs |-> msgsEnv \cup f.msgs]
       ELSE [valid |-> TRUE,                                  \* line 81
             environ |-> env2, dotenv |-> file,
             proceed |-> TRUE, rerun |-> FALSE,
             validations |-> valsEnv, msgs |-> msgsEnv]

----------------------------------------------------------------------------
(* src/data_handlers/document_loader.py *)

\* load_documents that swallows the loader's exception without reporting it.
load_documents_silent(dir) ==
    IF dir = "docs" THEN [docs |-> "docs", msgs |-> {}]
    ELSE [docs |-> "empty", msgs |-> {}]

\* load_documents: the documents of the directory; [] when the loader raises.
load_documents(dir) ==
    CASE dir = "docs" -> [docs |-> "docs", msgs |-> {}]
      [] dir = "empty" -> [docs |-> "empty", msgs |-> {}]
      [] OTHER -> [docs |-> "empty", msgs |-> {"load_docs_error"}]

\* save_vectorstore: save_local writes index.faiss, then index.pkl; whatever
\* it raises is caught and reported.  fault: "none", "before" (nothing was
\* written), "between" (index.faiss was written, index.pkl was not).
SaveFaults == {"none", "before", "between"}

save_vectorstore(vs, fs, fault) ==
    CASE fault = "none" ->
            [files |-> [fs EXCEPT ![DirFaiss] = vs.vec, ![DirPkl] = vs.src],
             msgs |-> {"saved"}]
      [] fault = "between" ->
            [files |-> [fs EXCEPT ![DirFaiss] = vs.vec], msgs |-> {"save_error"}]
      [] OTHER -> [files |-> fs, msgs |-> {"save_error"}]

\* create_vectorstore(documents, save_local=True): the primary embedding
\* configuration, then one fallback; None (NoIndex) when both fail.
create_vectorstore(docs, fs, primOk, fbOk, fault) ==
    IF primOk
    THEN LET vs == Index(docs, "primary", "primary")
             s == save_vectorstore(vs, fs, fault)
         IN [vs |-> vs, files |-> s.files, msgs |-> s.msgs, tried |-> <<"primary">>]
    ELSE IF fbOk
         THEN LET vs == Index(docs, "fallback", "fallback")
                  s == save_vectorstore(vs, fs, fault)
              IN [vs |-> vs, files |-> s.files,
                  msgs |-> {"create_error"} \cup s.msgs,
                  tried |-> <<"primary", "fallback">>]
         ELSE [vs |-> NoIndex, files |-> fs,
               msgs |-> {"create_error", "fallback_failed"},
               tried |-> <<"primary", "fallback">>]

\* FAISS.load_local(FAISS_INDEX_PATH, embeddings): reads the two files
\* save_local writes; ok is whether the embeddings initialise and the files
\* deserialise.
load_local(fs, ok) == ok /\ exists(fs, DirFaiss) /\ exists(fs, DirPkl)

\* load_vectorstore: None (NoIndex) when FAISS_INDEX_PATH.faiss does not
\* exist; the primary configuration, then one fallback; None when both fail.
load_vectorstore(fs, ok1, ok2) ==
    IF ~exists(fs, PfxFaiss)
    THEN [vs |-> NoIndex, msgs |-> {}, tried |-> <<>>]
    ELSE IF load_local(fs, ok1)
         THEN [vs |-> Index(fs[DirPkl], fs[DirFaiss], "primary"),
               msgs |-> {"load_ok"}, tried |-> <<"primary">>]
         ELSE IF load_local(fs, ok2)
              THEN [vs |-> Index(fs[DirPkl], fs[DirFaiss], "fallback"),
                    msgs |-> {"load_error", "load_ok"},
                    tried |-> <<"primary", "fallback">>]
              ELSE [vs |-> NoIndex,
                    msgs |-> {"load_error", "load_fallback_failed"},
                    tried |-> <<"primary", "fallback">>]

\* reset_vectorstore: removes FAISS_INDEX_PATH.faiss and FAISS_INDEX_PATH.pkl
\* when they exist.  fault: "none", "faiss" (os.remove of the .faiss file
\* raises), "pkl" (os.remove of the .pkl file raises).
ResetFaults == {"none", "faiss", "pkl"}

reset_vectorstore(fs, fault) ==
    IF exists(fs, PfxFaiss) /\ fault = "faiss"
    THEN [ok |-> FALSE, files |-> fs, msgs |-> {"reset_error"}]
    ELSE LET fs1 == [fs EXCEPT ![PfxFaiss] = Absent]
         IN IF exists(fs1, PfxPkl) /\ fault = "pkl"
            THEN [ok |-> FALSE, files |-> fs1, msgs |-> {"reset_error"}]
            ELSE [ok |-> TRUE, files |-> [fs1 EXCEPT ![PfxPkl] = Absent],
                  msgs |-> {"reset_ok"}]

----------------------------------------------------------------------------
(* Python string operations used by main(), on token sequences *)

Min(a, b) == IF a < b THEN a ELSE b
Max(a, b) == IF a > b THEN a ELSE b

Contains(s, tok) == \E i \in 1..Len(s) : s[i] = tok

\* s.find(tok, start): the 0-based position of the first tok at or after
\* start, -1 when there is none.
Find(s, tok, start) ==
    LET hits == {i \in start..(Len(s) - 1) : s[i + 1] = tok}
    IN IF hits = {} THEN -1 ELSE CHOOSE i \in hits : \A j \in hits : i <= j

\* s[a:b] for a >= 0; a negative b counts from the end.
Slice(s, a, b) ==
    LET e == IF b < 0 THEN Max(Len(s) + b, 0) ELSE Min(b, Len(s))
    IN SubSeq(s, a + 1, e)

IsSpace(tok) == tok \in {"SP", "NL"}

RECURSIVE LStrip(_)
LStrip(s) == IF s # <<>> /\ IsSpace(Head(s)) THEN LStrip(Tail(s)) ELSE s

RECURSIVE RStrip(_)
RStrip(s) ==
    IF s # <<>> /\ IsSpace(s[Len(s)]) THEN RStrip(SubSeq(s, 1, Len(s) - 1)) ELSE s

Strip(s) == RStrip(LStrip(s))

LabelLen == 1   \* len("Action Type:") in tokens

\* The extraction without the elif branch of line 186.
ExtractActionType_noerror(answer) ==
    IF Contains(answer, "AT")
    THEN LET action_start == Find(answer, "AT", 0) + LabelLen
             action_end == Find(answer, "NL", action_start)
         IN Strip(Slice(answer, action_start, action_end))
    ELSE <<"Unknown">>

\* src/main.py, lines 180-187
ExtractActionType(answer) ==
    IF Contains(answer, "AT")
    THEN LET action_start == Find(answer, "AT", 0) + LabelLen
             action_end == Find(answer, "NL", action_start)
         IN Strip(Slice(answer, action_start, action_end))
    ELSE IF Contains(answer, "ERR")
         THEN <<"Error">>
         ELSE <<"Unknown">>

----------------------------------------------------------------------------
(* src/main.py, lines 102-168: the index of this session *)

NoSetup ==
    [called |-> FALSE, loaded |-> NoIndex, ingested |-> "notcalled",
     tried |-> <<>>, mock |-> "notcalled"]

\* lines 123-144: the one-document index "for testing".
MockIndex(mockOk) ==
    IF mockOk
    THEN [vs |-> Index("mock", "simple", "simple"), msgs |-> {"mock_warning", "mock_ok"}]
    ELSE [vs |-> NoIndex, msgs |-> {"mock_warning", "mock_failed"}]

SetupIndex(fs, dir, ok1, ok2, primOk, fbOk, fault, mockOk) ==
    LET l == load_vectorstore(fs, ok1, ok2)                      \* line 106
        d == load_documents(dir)                                 \* line 111
        c == create_vectorstore(d.docs, fs, primOk, fbOk, fault) \* line 117
        built == l.vs = NoIndex /\ d.docs # "empty"
        vs1 == IF l.vs # NoIndex THEN l.vs
               ELSE IF built THEN c.vs ELSE NoIndex
        fs1 == IF built THEN c.files ELSE fs
        m == MockIndex(mockOk)
    IN [vs |-> IF vs1 # NoIndex THEN vs1 ELSE m.vs,              \* lines 120-144
        files |-> fs1,
        msgs |-> l.msgs
                 \cup (IF l.vs = NoIndex THEN d.msgs ELSE {})
                 \cup (IF l.vs = NoIndex /\ d.docs = "empty" THEN {"no_documents"} ELSE {})
                 \cup (IF built THEN c.msgs ELSE {})
                 \cup (IF vs1 = NoIndex THEN m.msgs ELSE {}),
        setup |-> [called |-> TRUE,
                   loaded |-> l.vs,
                   ingested |-> IF l.vs = NoIndex THEN d.docs ELSE "notcalled",
                   tried |-> IF built THEN c.tried ELSE <<>>,
                   mock |-> IF vs1 # NoIndex THEN "notcalled"
                            ELSE IF mockOk THEN "ok" ELSE "failed"]]

\* line 103: only when 'vectorstore' is not in st.session_state.
SetupOutcomes(vs, fs, dir) ==
    IF vs # NoIndex
    THEN {[vs |-> vs, files |-> fs, msgs |-> {}, setup |-> NoSetup]}
    ELSE {SetupIndex(fs, dir, ok1, ok2, primOk, fbOk, fault, mockOk) :
            ok1 \in Bool, ok2 \in Bool, primOk \in Bool, fbOk \in Bool,
            fault \in SaveFaults, mockOk \in Bool}

----------------------------------------------------------------------------
(* src/main.py, lines 170-202, and src/models/llm_chain.py: one request *)

NoRequest ==
    [kind |-> "none", text |-> "", index |-> NoIndex, answer |-> <<>>,
     inits |-> 0, invokes |-> 0]

\* invoke called a second time after it raised.
ProcessRequest_retry(text, vs, env, net, reply) ==
    IF env = "" \/ ~LlmInit(env, net)
    THEN [kind |-> "ValueError", text |-> text, index |-> vs, answer |-> <<>>,
          inits |-> IF env = "" THEN 0 ELSE 1, invokes |-> 0]
    ELSE IF reply = <<>>
         THEN [kind |-> "Exception", text |-> text, index |-> vs, answer |-> <<>>,
               inits |-> 1, invokes |-> 2]
         ELSE [kind |-> "answer", text |-> text, index |-> vs, answer |-> reply,
               inits |-> 1, invokes |-> 1]

\* reply: the backend's response text, or <<>> when the call raises.
ProcessRequest(text, vs, env, net, reply) ==
    IF env = "" \/ ~LlmInit(env, net)           \* setup_llm_chain raises ValueError
    THEN [kind |-> "ValueError", text |-> text, index |-> vs, answer |-> <<>>,
          inits |-> IF env = "" THEN 0 ELSE 1, invokes |-> 0]
    ELSE IF reply = <<>>                        \* retrieval_chain.invoke raises
         THEN [kind |-> "Exception", text |-> text, index |-> vs, answer |-> <<>>,
               inits |-> 1, invokes |-> 1]
         ELSE [kind |-> "answer", text |-> text, index |-> vs, answer |-> reply,
               inits |-> 1, invokes |-> 1]

\* The condition of line 171 without submit_button.
ProcessOutcomes_nosubmit(button, text, vs, env) ==
    IF text # "" /\ vs # NoIndex
    THEN {ProcessRequest(text, vs, env, net, reply) :
            net \in Bool, reply \in Answers \cup {<<>>}}
    ELSE {NoRequest}

\* line 171: submit_button and input_text and 'vectorstore' in st.session_state
ProcessOutcomes(button, text, vs, env) ==
    IF button = "submit" /\ text # "" /\ vs # NoIndex
    THEN {ProcessRequest(text, vs, env, net, reply) :
            net \in Bool, reply \in Answers \cup {<<>>}}
    ELSE {NoRequest}

----------------------------------------------------------------------------
(* One execution of main() *)

NoInput == [form |-> NoForm, button |-> "none", text |-> ""]

StartPage ==
    [view |-> "start", msgs |-> {}, validations |-> <<>>, reset |-> "none",
     setup |-> NoSetup, request |-> NoRequest]

GateOutcomes(form) ==
    {CredentialGate(api_key_valid, environ, dotenv, form, netEnv, netForm, writeOk) :
        netEnv \in Bool, netForm \in Bool, writeOk \in Bool}

\* The execution ends at the gate (line 78): the form is on the page.
StopAtGate(g) ==
    /\ api_key_valid' = g.valid
    /\ environ' = g.environ
    /\ dotenv' = g.dotenv
    /\ rerun' = g.rerun
    /\ page' = [view |-> "form", msgs |-> g.msgs, validations |-> g.validations,
                reset |-> "none", setup |-> NoSetup, request |-> NoRequest]
    /\ UNCHANGED <<history, vectorstore, files, dataDir>>

\* The execution ends at st.rerun() (line 93 after a reset, line 100 after a clear).
StopAtRerun(g, vs, fs, msgs, resetResult) ==
    /\ api_key_valid' = g.valid
    /\ environ' = g.environ
    /\ dotenv' = g.dotenv
    /\ vectorstore' = vs
    /\ files' = fs
    /\ rerun' = TRUE
    /\ page' = [view |-> "app", msgs |-> g.msgs \cup msgs, validations |-> g.validations,
                reset |-> resetResult, setup |-> NoSetup, request |-> NoRequest]
    /\ UNCHANGED <<history, dataDir>>

\* Lines 102-205: the index of the session, then the request.
ServeRequest(g, fs, msgs, resetResult, inp) ==
    \E s \in SetupOutcomes(vectorstore, fs, dataDir) :
      \E r \in ProcessOutcomes(inp.button, inp.text, s.vs, g.environ) :
        /\ api_key_valid' = IF r.kind = "ValueError" THEN FALSE ELSE g.valid  \* line 198
        /\ environ' = g.environ
        /\ dotenv' = g.dotenv
        /\ vectorstore' = s.vs
        /\ files' = s.files
        /\ history' = IF r.kind = "answer"                                    \* line 190
                      THEN Append(history, [req |-> inp.text,
                                            act |-> ExtractActionType(r.answer)])
                      ELSE history
        /\ rerun' = FALSE
        /\ page' = [view |-> "app",
                    msgs |-> g.msgs \cup msgs \cup s.msgs
                             \cup (IF r.kind = "ValueError" THEN {"api_key_error"} ELSE {})
                             \cup (IF r.kind = "Exception" THEN {"error"} ELSE {}),
                    validations |-> g.validations,
                    reset |-> resetResult, setup |-> s.setup, request |-> r]
        /\ UNCHANGED dataDir

Main(inp) ==
    \E g \in GateOutcomes(inp.form) :
        IF ~g.proceed
        THEN StopAtGate(g)
        ELSE IF inp.button = "reset"                                          \* line 90
             THEN \E fault \in ResetFaults :
                    LET r == reset_vectorstore(files, fault)
                    IN IF r.ok
                       THEN StopAtRerun(g, NoIndex, r.files, r.msgs, "ok")    \* lines 92-93
                       ELSE ServeRequest(g, r.files, r.msgs, "failed", inp)
             ELSE IF inp.button = "clear"                                     \* line 99
                  THEN StopAtRerun(g, vectorstore, files, {}, "none")
                  ELSE ServeRequest(g, files, {}, "none", inp)

----------------------------------------------------------------------------
(* The specification: the operator's actions *)

InitDotenvs ==
    {NoDotenv} \cup {[exists |-> TRUE, key |-> k, other |-> "o"] : k \in Keys \cup {""}}

\* The files found at start: nothing under FAISS_INDEX_PATH/, and at
\* FAISS_INDEX_PATH.faiss / .pkl either nothing or what a deployment put there.
InitFiles ==
    {[p \in Paths |-> IF p \in {PfxFaiss, PfxPkl} /\ pfx THEN "deployed" ELSE Absent] :
      pfx \in Bool}

Init ==
    /\ api_key_valid = FALSE
    /\ history = <<>>
    /\ vectorstore = NoIndex
    /\ environ \in Keys \cup {""}
    /\ dotenv \in InitDotenvs
    /\ files \in InitFiles
    /\ dataDir \in {"docs", "empty", "unreadable"}
    /\ rerun = FALSE
    /\ page = StartPage

\* The page is opened, or a widget that is no button changes.
Refresh == ~rerun /\ Main(NoInput)

\* Streamlit runs the script again after st.rerun().
Rerun == rerun /\ Main(NoInput)

SupplyCredential ==
    /\ ~rerun /\ page.view = "form"
    /\ \E k \in Keys \cup {""}, remember \in Bool :
         Main([form |-> [submitted |-> TRUE, key |-> k, remember |-> remember],
               button |-> "none", text |-> ""])

\* The text area keeps its text when another button is pressed.
Reset ==
    /\ ~rerun /\ page.view = "app"
    /\ \E t \in Requests : Main([form |-> NoForm, button |-> "reset", text |-> t])

Clear ==
    /\ ~rerun /\ page.view = "app"
    /\ \E t \in Requests : Main([form |-> NoForm, button |-> "clear", text |-> t])

Submit ==
    /\ ~rerun /\ page.view = "app"
    /\ Len(history) < MaxHistory
    /\ \E t \in Requests : Main([form |-> NoForm, button |-> "submit", text |-> t])

\* A submitted request that may mention an entity outside the schema.
SubmitAny ==
    /\ ~rerun /\ page.view = "app"
    /\ Len(history) < MaxHistory
    /\ \E t \in Requests \cup UnknownEntityRequests :
         Main([form |-> NoForm, button |-> "submit", text |-> t])

\* The server process is started again: a new session and a new process
\* environment; the .env file and the files under faiss/ are what was left.
Restart ==
    /\ page.view # "start"
    /\ api_key_valid' = FALSE
    /\ history' = <<>>
    /\ vectorstore' = NoIndex
    /\ environ' \in Keys \cup {""}
    /\ rerun' = FALSE
    /\ page' = StartPage
    /\ UNCHANGED <<dotenv, files, dataDir>>

Next == Refresh \/ Rerun \/ SupplyCredential \/ Reset \/ Clear \/ Submit \/ Restart

Spec == Init /\ [][Next]_vars

\* The same operator, whose requests may mention entities outside the schema.
NextSchema ==
    Refresh \/ Rerun \/ SupplyCredential \/ Reset \/ Clear \/ SubmitAny \/ Restart

SpecSchema == Init /\ [][NextSchema]_vars

----------------------------------------------------------------------------
(* validate_api_key on its own: the candidates include the empty secret,   *)
(* which main() and the form never pass on.                                *)

ValidateCall ==
    /\ \E k \in Keys \cup {""}, net \in Bool :
         page' = [page EXCEPT
                    !.validations = <<Validation("call", k, validate_api_key(k, net))>>]
    /\ UNCHANGED <<api_key_valid, history, vectorstore, environ, dotenv, files,
                   dataDir, rerun>>

NextValidate == ValidateCall

SpecValidate == Init /\ [][NextValidate]_vars

----------------------------------------------------------------------------
(* Properties *)

Validations(pg) == {pg.validations[i] : i \in DOMAIN pg.validations}

\* C1: a request is retrieved against and answered only when the index of
\* the reference documents is Ready (built from them, or loaded); none is
\* processed while that index is Absent or Building.
IndexReady(vs) == vs.src = "docs"

C1_QueriesOnlyWhenReady ==
    page.request.kind = "answer" => IndexReady(page.request.index)

\* C2: the session becomes Valid only through a validate call that returned
\* is_valid for the secret now in use; an Invalid session waits for the
\* operator (no execution is pending); a Valid session stays Valid through
\* every execution of the session except one whose generation call reports
\* a credential failure (ValueError), and that execution invalidates it.
SessionEnds == page' = StartPage

C2_CredentialLifecycle ==
    [][ /\ (~api_key_valid /\ api_key_valid') =>
              \E v \in Validations(page') : v.is_valid /\ v.key = environ'
        /\ (api_key_valid /\ ~api_key_valid') =>
              (page'.request.kind = "ValueError" \/ SessionEnds)
        /\ page'.request.kind = "ValueError" => ~api_key_valid'
        /\ (\E v \in Validations(page') : ~v.is_valid) /\ ~api_key_valid' => ~rerun'
      ]_vars

\* A session that was Valid, answered a request, and was then invalidated
\* by a generation call's credential failure.
C2_Witness ==
    /\ ~api_key_valid
    /\ page.request.kind = "ValueError"
    /\ history # <<>>

\* C3: the vector-data artifact exists if and only if the chunk/metadata
\* artifact exists, after any persist or reset, failed ones included.
C3_ArtifactsConsistent ==
    /\ exists(files, DirFaiss) <=> exists(files, DirPkl)
    /\ exists(files, PfxFaiss) <=> exists(files, PfxPkl)

\* C4: once an index was built and persisted, a load that does not follow a
\* reset and reports no read error returns a present index with the
\* persisted content.
C4_RoundTrip ==
    [][ ( /\ page'.setup.called
          /\ page.reset # "ok"
          /\ exists(files, DirFaiss) /\ exists(files, DirPkl)
          /\ "load_error" \notin page'.msgs )
        => ( /\ page'.setup.loaded # NoIndex
             /\ page'.setup.loaded.src = files[DirPkl]
             /\ page'.setup.loaded.vec = files[DirFaiss] )
      ]_vars

\* C5: after a reset that reports success neither artifact exists.
C5_ResetRemovesArtifacts ==
    page.reset = "ok" => \A p \in Paths : ~exists(files, p)

\* C6: validate of the empty secret returns (false, "API key is empty") and
\* initialises no generation backend.
C6_EmptySecret ==
    \A v \in Validations(page) :
        v.key = "" => (~v.is_valid /\ v.msg = "API key is empty" /\ v.inits = 0)

C6_Witness ==
    \E v \in Validations(page) : v.key = "" /\ ~v.is_valid

\* C7 (as amended): in an execution whose validations all fail the .env file
\* is left as it was; a failed form secret leaves GOOGLE_API_KEY of the
\* process environment as it was, and a failed environment secret is removed
\* from the process environment.
AllFailed(pg) == pg.validations # <<>> /\ \A v \in Validations(pg) : ~v.is_valid
EnvFailed(pg) == \E v \in Validations(pg) : v.src = "env" /\ ~v.is_valid

C7_FailedValidationFrame ==
    [][ AllFailed(page') =>
          /\ dotenv' = dotenv
          /\ environ' = IF EnvFailed(page') THEN "" ELSE load_dotenv(environ, dotenv)
      ]_vars

\* C7 (as claimed): after a failed validation the .env file and the stored
\* GOOGLE_API_KEY setting are what they were before it.
C7_Original ==
    [][ AllFailed(page') =>
          /\ dotenv' = dotenv
          /\ environ' = load_dotenv(environ, dotenv)
      ]_vars

\* The environment's secret failed, then the form's secret failed: the
\* variable is unset and the file still holds its key.
C7_Witness ==
    /\ EnvFailed(page)
    /\ \E v \in Validations(page) : v.src = "form" /\ ~v.is_valid
    /\ environ = ""
    /\ dotenv.exists /\ dotenv.key # ""

\* C8: when the directory holds no matching file the warning is shown, no
\* build is attempted, no artifact is persisted and no index becomes
\* available for queries.
C8_EmptyLeavesAbsent ==
    [][ (page'.setup.ingested = "empty" /\ dataDir = "empty") =>
          /\ "no_documents" \in page'.msgs
          /\ page'.setup.tried = <<>>
          /\ files'[DirFaiss] = files[DirFaiss] /\ files'[DirPkl] = files[DirPkl]
          /\ vectorstore' = NoIndex
      ]_vars

\* C9: when the primary configuration and the one fallback both fail, the
\* build is fatal: no further embedding configuration is tried and the run
\* has no index.
C9_SingleFallback ==
    /\ Len(page.setup.tried) <= 2
    /\ "fallback_failed" \in page.msgs =>
          (page.setup.mock = "notcalled" /\ vectorstore = NoIndex)

\* C10: load returns absent only when the vector-data artifact does not
\* exist; a failed read is reported as an error that differs from absent.
C10_AbsentOnlyWhenMissing ==
    (page.setup.called /\ page.setup.loaded = NoIndex) => "load_error" \notin page.msgs


\* C11 (as amended): an unreadable directory is reported with an error
\* message, and load_documents then returns the same empty sequence as for a
\* readable directory without matching files; the caller shows the "no
\* documents found" warning in both cases and only the error message tells
\* them apart.
C11_IngestionOutcomes ==
    page.setup.ingested # "notcalled" =>
        /\ dataDir = "docs" =>
              (page.setup.ingested = "docs" /\ "load_docs_error" \notin page.msgs)
        /\ dataDir = "empty" =>
              /\ page.setup.ingested = "empty"
              /\ "load_docs_error" \notin page.msgs
              /\ "no_documents" \in page.msgs
        /\ dataDir = "unreadable" =>
              /\ page.setup.ingested = "empty"
              /\ "load_docs_error" \in page.msgs
              /\ "no_documents" \in page.msgs

\* C11 (as claimed): the caller can tell the two outcomes apart: it gets
\* the empty sequence only for a readable directory without matching files.
C11_Original ==
    page.setup.ingested = "empty" => dataDir = "empty"

C11_Witness ==
    /\ dataDir = "unreadable"
    /\ page.setup.ingested = "empty"
    /\ "load_docs_error" \in page.msgs


\* C12: for a response that contains the label "Action Type:", the action
\* type put in the history is the text after the first label up to the next
\* line break, or up to the end of the response when no line break follows,
\* with the surrounding whitespace trimmed.
ClaimedActionType(answer) ==
    LET from == Find(answer, "AT", 0) + LabelLen
        nl == Find(answer, "NL", from)
        to == IF nl < 0 THEN Len(answer) ELSE nl
    IN Strip(SubSeq(answer, from + 1, to))

C12_ActionTypeExtraction ==
    (page.request.kind = "answer" /\ Contains(page.request.answer, "AT")) =>
        history[Len(history)].act = ClaimedActionType(page.request.answer)


\* C13: a validated secret is persisted by creating the .env file when there
\* is none, and otherwise by updating GOOGLE_API_KEY in the file, whose other
\* keys keep their values; the file changes in no other way.
FormValidated(pg) == \E v \in Validations(pg) : v.src = "form" /\ v.is_valid

C13_DotenvPersist ==
    [][ /\ "dotenv_new" \in page'.msgs =>
              /\ FormValidated(page')
              /\ ~dotenv.exists /\ dotenv'.exists
              /\ dotenv'.key = environ'
        /\ "dotenv_updated" \in page'.msgs =>
              /\ FormValidated(page')
              /\ dotenv.exists /\ dotenv'.exists
              /\ dotenv'.key = environ'
              /\ dotenv'.other = dotenv.other
        /\ dotenv' # dotenv =>
              ("dotenv_new" \in page'.msgs \/ "dotenv_updated" \in page'.msgs)
      ]_vars

\* The file's key failed validation, the operator supplied another one, and
\* the file now holds it beside its other key.
C13_Witness ==
    /\ "dotenv_updated" \in page.msgs
    /\ EnvFailed(page)
    /\ dotenv.key = "good" /\ dotenv.other = "o"


Sentinel == <<"ERR", "msg">>

\* C15: a processed request that mentions an entity outside the schema is
\* answered with the sentinel error text exactly.
C15_SentinelForUnknownEntity ==
    (page.request.kind = "answer" /\ page.request.text \in UnknownEntityRequests)
        => page.request.answer = Sentinel

\* C16: an execution of main() calls retrieval_chain.invoke at most once and
\* builds the chain at most once. When the chain cannot be built or the call
\* raises, the error is put on the page, the execution ends normally on the
\* application page with no rerun, nothing is added to the history, the .env
\* file is unchanged, the session keeps its index, and the files under faiss/
\* are unchanged unless a build of the index ran earlier in that execution.
C16_BackendFailure ==
    [][ /\ page'.request.invokes <= 1
        /\ page'.request.inits <= 1
        /\ page'.request.kind \in {"ValueError", "Exception"} =>
              /\ page'.request.kind = "ValueError" => "api_key_error" \in page'.msgs
              /\ page'.request.kind = "Exception" => "error" \in page'.msgs
              /\ page'.view = "app" /\ ~rerun'
              /\ history' = history
              /\ dotenv' = dotenv
              /\ vectorstore' = page'.request.index /\ vectorstore' # NoIndex
              /\ page'.setup.tried = <<>> => files' = files
      ]_vars

C16_Witness ==
    /\ page.request.kind = "Exception"
    /\ page.request.invokes = 1
    /\ "error" \in page.msgs
    /\ exists(files, DirFaiss)
    /\ dotenv.exists
    /\ history # <<>>

\* C17: within a session, an execution of main() that obtained a response
\* appends exactly one entry (request text, action type) to the history and
\* keeps the earlier entries in order, the action type being "Error" when the
\* response is the sentinel; every other execution (a failed request, a
\* reset, a clear, a credential submission, a refresh) leaves the history
\* unchanged.
C17_HistoryGrows ==
    [][ ~SessionEnds =>
          IF page'.request.kind = "answer"
          THEN /\ Len(history') = Len(history) + 1
               /\ SubSeq(history', 1, Len(history)) = history
               /\ history'[Len(history')].req = page'.request.text
               /\ page'.request.answer = Sentinel =>
                      history'[Len(history')].act = <<"Error">>
          ELSE history' = history
      ]_vars

C17_Witness ==
    /\ Len(history) = 2
    /\ history[1].act = <<"Update">>
    /\ history[2].act = <<"Error">>
    /\ page.request.kind = "answer"
    /\ page.request.answer = Sentinel

====
